---------------------------- MODULE Spec2Model ----------------------------
(***************************************************************************)
(* A model of pufferlib/policy_pool.py: the PolicyPool orchestrator, the   *)
(* PolicyDatabase it stores Policy records in, and the rating tournament   *)
(* it keeps in step with the database.                                     *)
(*                                                                         *)
(* Indices are the program's: batch indices and slot indices count from 0. *)
(* A Python list is a TLA+ sequence, so list position p is sequence        *)
(* position p + 1.                                                         *)
(***************************************************************************)
EXTENDS Integers, Sequences, FiniteSets

(***************************************************************************)
(* Bounds of the model.                                                    *)
(***************************************************************************)
\* Policy objects constructed in one run (the learner's included).
MaxObjs == 2
\* Samples the score ledger may hold before update_ranks must run.
MaxScores == 1
\* The partition table alone under SpecPartition.
PMaxSlots == 3
PMaxWeight == 3
PMaxBatch == 8

(***************************************************************************)
(* Program constants: the defaults of PolicyPool.__init__.  mu and sigma   *)
(* are floats the pool only stores, copies and compares, so they are kept  *)
(* as integers; 100/3 is kept as its integer part.                         *)
(***************************************************************************)
DefaultMu == 1000
AnchorMu == 1000
DefaultSigma == 100 \div 3

\* Python's None: a mu or sigma argument left unset, and the result of a
\* query that finds no row.  Object ids count from 1.
None == 0

\* Policy names, the learner's first.
LearnerName == "learner"
NameOrder == <<LearnerName, "p1">>
Names == {NameOrder[k] : k \in DOMAIN NameOrder}

\* The parameters of a model (its state_dict), as opaque values, and the
\* observations of a batch: agent i's is base + i.
ParamVals == {1, 2}
ObsBases == {0, 3}

\* What add_policy is called with for <<mu, sigma, anchor, tenured>>, and
\* add_policy_copy for <<anchor, tenured>>.
PolicyArgs == {<<None, None, FALSE, FALSE>>, <<500, 50, FALSE, TRUE>>,
               <<500, 50, TRUE, FALSE>>}
CopyArgs == {<<FALSE, TRUE>>, <<TRUE, FALSE>>}

\* What the pool is built with under Spec: sample_weights,
\* evaluation_batch_size and active_policies.
WeightChoices == {<<3>>, <<2, 1>>}
BatchChoices == {2, 3}
SlotChoices == {1, 2}

\* The info key update_scores is asked for, and the values found under it.
InfoKey == "score"
ScoreVals == {0, 1}

VARIABLES
    phase,                  \* "new", "ready" or "failed": where __init__ got to
    args,                   \* the arguments __init__ was called with
    num_active_policies,    \* self.num_active_policies
    sample_idxs,            \* self.sample_idxs
    learner,                \* the parameters of self.learner (a state_dict,
                            \* as an opaque value)
    objs,                   \* every Policy object created, by id
    db,                     \* ids of the rows of the policies table
    dirty,                  \* rows assigned to since the session's last
                            \* commit -> their committed columns
    session,                \* "active", or "inactive": a flush was refused
                            \* and the transaction awaits a rollback
    files,                  \* model_path -> the state_dict saved there
    ratings,                \* self.tournament.ratings
    anchor,                 \* self.tournament's anchor
    scores,                 \* self.scores
    num_scores,             \* self.num_scores
    active_policies,        \* self.active_policies, as object ids
    allocated,              \* self.allocated
    actions,                \* self.actions
    logprobs,               \* self.logprobs
    values,                 \* self.values
    last                    \* the last operation called and how it ended

\* The output buffers of forwards.
buffers == <<allocated, actions, logprobs, values>>

vars == <<phase, args, num_active_policies, sample_idxs, learner, objs, db,
          dirty, session, files, ratings, anchor, scores, num_scores, active_policies,
          allocated, actions, logprobs, values, last>>

(***************************************************************************)
(* The partition table, lines 112-122 of PolicyPool.__init__.              *)
(***************************************************************************)
RECURSIVE sum(_)
sum(s) == IF s = <<>> THEN 0 ELSE Head(s) + sum(Tail(s))

range_off_by_one(n) == [k \in 1..n |-> k]

\* Python's range(n): 0, 1, ..., n - 1 in order.
range(n) == [k \in 1..n |-> k - 1]

RECURSIVE repeat(_, _)
repeat(x, r) == IF r = <<>> THEN <<>> ELSE <<x>> \o repeat(x, Tail(r))

\* pattern = [i for i, weight in enumerate(sample_weights) for _ in range(weight)]
RECURSIVE pattern_from(_, _)
pattern_from(i, weights) ==
    IF weights = <<>> THEN <<>>
    ELSE repeat(i, range(Head(weights))) \o pattern_from(i + 1, Tail(weights))

pattern(sample_weights) == pattern_from(0, sample_weights)

sublist_idx_shifted(pat, idx, chunk_size) == pat[((idx + 1) % chunk_size) + 1]

\* sublist_idx = pattern[idx % chunk_size]
sublist_idx(pat, idx, chunk_size) == pat[(idx % chunk_size) + 1]

\* for idx in range(evaluation_batch_size): self.sample_idxs[sublist_idx].append(idx)
RECURSIVE distribute(_, _, _, _)
distribute(idxs, pat, chunk_size, acc) ==
    IF idxs = <<>> THEN acc
    ELSE LET idx == Head(idxs)
             s == sublist_idx(pat, idx, chunk_size) + 1
         IN distribute(Tail(idxs), pat, chunk_size,
                       [acc EXCEPT ![s] = Append(@, idx)])

batch_divides_always(evaluation_batch_size, chunk_size) == TRUE

\* assert evaluation_batch_size % chunk_size == 0
batch_divides(evaluation_batch_size, chunk_size) ==
    evaluation_batch_size % chunk_size = 0

\* assert len(sample_weights) == active_policies
weights_match(sample_weights, n) == Len(sample_weights) = n

build_sample_idxs(sample_weights, evaluation_batch_size) ==
    distribute(range(evaluation_batch_size), pattern(sample_weights),
               sum(sample_weights),
               [s \in 1..Len(sample_weights) |-> <<>>])

(***************************************************************************)
(* The pool's mutable state as one record, so that a method that calls     *)
(* another (__init__, add_policy_copy) composes their effects.  result is  *)
(* "ok" or the exception that ended the call.                              *)
(***************************************************************************)
Pool == [objs |-> objs, db |-> db, dirty |-> dirty, session |-> session,
         files |-> files,
         ratings |-> ratings,
         anchor |-> anchor, scores |-> scores, num_scores |-> num_scores,
         active_policies |-> active_policies, result |-> "ok"]

\* A Policy object neither the table nor the roster holds is garbage: what it
\* held is forgotten.
Collected ==
    [name |-> "", mu |-> None, sigma |-> None, episodes |-> 0,
     tenured |-> FALSE, model_path |-> "", model |-> None]

Reachable(P) ==
    P.db \cup {P.active_policies[k] : k \in 1..Len(P.active_policies)}

Assign(P) ==
    /\ objs' = [id \in DOMAIN P.objs |->
                   IF id \in Reachable(P) THEN P.objs[id] ELSE Collected]
    /\ db' = P.db
    /\ dirty' = [id \in DOMAIN P.dirty \cap P.db |-> P.dirty[id]]
    /\ session' = P.session
    /\ files' = P.files
    /\ ratings' = P.ratings
    /\ anchor' = P.anchor
    /\ scores' = P.scores
    /\ num_scores' = P.num_scores
    /\ active_policies' = P.active_policies

\* A dict with no keys.
Empty == [n \in {} |-> None]

\* dict[key] = value
Put(f, key, value) ==
    [k \in DOMAIN f \cup {key} |-> IF k = key THEN value ELSE f[k]]

(***************************************************************************)
(* PolicyDatabase, lines 46-80.  A row is the id of the Policy object the  *)
(* session holds for it; the columns are read from objs.                   *)
(***************************************************************************)
\* session.query(Policy).filter_by(name=name).first(): the first row of that
\* name, or None.
query_policy_by_name(P, name) ==
    LET found == {id \in P.db : P.objs[id].name = name}
    IN IF found = {} THEN None
       ELSE CHOOSE id \in found : \A other \in found : id <= other

\* session.query(Policy).all()
query_all_policies(P) == P.db

\* The columns an assignment to a record changes.
Columns(r) == [mu |-> r.mu, sigma |-> r.sigma, episodes |-> r.episodes,
               tenured |-> r.tenured]

\* session.commit(): what was assigned to the session's records is written,
\* and no row is left with uncommitted changes.
commit(P) == [P EXCEPT !.dirty = Empty]

\* The session after a flush the database refused: no call of the sources
\* issues the Session.rollback() that would begin a new transaction, so
\* every later query and commit raises PendingRollbackError.
pending_rollback(P) == P.session = "inactive"

\* A flush the database refuses (in a commit, or before a query) rolls the
\* transaction back: the records assigned to since the last commit have
\* their committed columns again, the session's records are expired, and the
\* session is left inactive.
rollback(P) ==
    [P EXCEPT !.objs = [id \in DOMAIN @ |->
                           IF id \in DOMAIN P.dirty
                           THEN [@[id] EXCEPT !.mu = P.dirty[id].mu,
                                              !.sigma = P.dirty[id].sigma,
                                              !.episodes = P.dirty[id].episodes,
                                              !.tenured = P.dirty[id].tenured]
                           ELSE @[id]],
              !.dirty = Empty,
              !.session = "inactive"]

\* session.delete(policy); session.commit()
delete_policy(rows, policy) == rows \ {policy}

\* name = Column(String, unique=True): the INSERT of a row whose name a row
\* already has fails with IntegrityError.
name_is_taken(P, name) == \E id \in P.db : P.objs[id].name = name

\* session.add(policy); session.commit()
database_add_policy(rows, policy) == rows \cup {policy}

\* policy.mu = ...; policy.sigma = ...: assignments to a record.  The
\* attributes are set on the object at once, and every later query of the
\* session returns the object with them; when the table holds the record's
\* row, the session writes them at its next commit.  The object of a deleted
\* row is no longer the session's.
assign_record(P, policy, v) ==
    [P EXCEPT !.objs[policy] = [@ EXCEPT !.mu = v.mu, !.sigma = v.sigma,
                                        !.episodes = v.episodes,
                                        !.tenured = v.tenured],
              !.dirty = IF policy \in P.db /\ policy \notin DOMAIN @
                        THEN Put(@, policy, Columns(P.objs[policy]))
                        ELSE @]

\* PolicyDatabase.update_policy, lines 79-80: self.session.commit(), whatever
\* the record passed.
database_update_policy(P, policy) ==
    IF pending_rollback(P) THEN [P EXCEPT !.result = "PendingRollbackError"]
    ELSE commit(P)

(***************************************************************************)
(* The rating tournament, pufferlib.rating.OpenSkillRating.  Its class is  *)
(* not among the sources; it is modelled from its described interface:     *)
(* add_policy registers a name at the default rating, set_anchor registers *)
(* it as the anchor at anchor_mu, and update re-rates the names it is      *)
(* given, the anchor excepted.  The rating arithmetic is abstracted to a   *)
(* choice among RatingOutcomes.                                            *)
(***************************************************************************)
RatingOutcomes == {[mu |-> 990, sigma |-> 30]}

tournament_add_policy(R, name) ==
    Put(R, name, [mu |-> DefaultMu, sigma |-> DefaultSigma])

tournament_set_anchor(R, name) ==
    Put(R, name, [mu |-> AnchorMu, sigma |-> DefaultSigma])

tournament_update(R, anch, names, outcome) ==
    [n \in DOMAIN R |->
        IF n \in names /\ n # anch /\ n \in DOMAIN outcome
        THEN outcome[n] ELSE R[n]]

(***************************************************************************)
(* PolicyPool.add_policy, lines 140-183.  fail names the storage call that *)
(* raises, if one does: "save_model" (torch.save, line 171) or "none".     *)
(***************************************************************************)
model_path_shared(name) == "pool"

\* model_path = f"{self.path}/{name}": one path per name, under the pool's
\* directory.
model_path(name) == name

\* Policy(model=model, model_path=..., name=..., mu=..., sigma=..., episodes=0,
\*        additional_data={'tenured': tenured})
new_policy(model, name, tenured, mu, sigma) ==
    [name |-> name, mu |-> mu, sigma |-> sigma, episodes |-> 0,
     tenured |-> tenured, model_path |-> model_path(name), model |-> model]

rows_after_existing_check_delete_first(rows, existing_policy, overwrite_existing) ==
    IF existing_policy # None THEN delete_policy(rows, existing_policy) ELSE rows

\* Lines 147-151: an existing row is deleted when overwriting, and is left
\* alone when the call is about to raise ValueError.
rows_after_existing_check(rows, existing_policy, overwrite_existing) ==
    IF existing_policy # None /\ overwrite_existing
    THEN delete_policy(rows, existing_policy)
    ELSE rows

default_always(value, default) == default

\* Lines 154-157.
default_if_none(value, default) == IF value = None THEN default ELSE value

register_rating_unseeded(P, name, mu, sigma, anch) ==
    IF anch
    THEN [P EXCEPT !.ratings = tournament_set_anchor(P.ratings, name),
                   !.anchor = name]
    ELSE [P EXCEPT !.ratings = tournament_add_policy(P.ratings, name)]

\* Lines 178-183.
register_rating(P, name, mu, sigma, anch) ==
    IF anch
    THEN [P EXCEPT !.ratings = tournament_set_anchor(P.ratings, name),
                   !.anchor = name]
    ELSE [P EXCEPT !.ratings =
              Put(tournament_add_policy(P.ratings, name), name,
                  [mu |-> mu, sigma |-> sigma])]

\* add_policy without the lookup of lines 145-151, on a table that takes a
\* second row of a name.
add_policy_keeping_existing(P, model, name, tenured, mu, sigma, anch, overwrite_existing, fail) ==
    LET mu1 == default_if_none(mu, DefaultMu)
        sigma1 == default_if_none(sigma, DefaultSigma)
        policy == Len(P.objs) + 1
    IN register_rating(
           [P EXCEPT !.objs = Append(@, new_policy(model, name, tenured, mu1, sigma1)),
                     !.files = Put(@, model_path(name), model),
                     !.db = database_add_policy(@, policy)],
           name, mu1, sigma1, anch)

add_policy(P, model, name, tenured, mu, sigma, anch, overwrite_existing, fail) ==
    LET existing_policy == query_policy_by_name(P, name)
        rows == rows_after_existing_check(P.db, existing_policy,
                                          overwrite_existing)
        \* delete_policy commits
        P1 == IF rows = P.db THEN P ELSE commit([P EXCEPT !.db = rows])
        mu1 == default_if_none(mu, DefaultMu)
        sigma1 == default_if_none(sigma, DefaultSigma)
        policy == Len(P.objs) + 1
        \* Policy(...): the object exists from line 161 on, in no table yet
        P2 == [P1 EXCEPT !.objs = Append(@, new_policy(model, name, tenured,
                                                       mu1, sigma1))]
        \* policy.save_model(model): torch.save(model.state_dict(),
        \* self.model_path) writes the parameters' values
        P3 == [P2 EXCEPT !.files = Put(@, model_path(name), model)]
        P4 == commit([P3 EXCEPT !.db = database_add_policy(@, policy)])
    IN IF pending_rollback(P)
            \* the query of line 145 raises
            THEN [P EXCEPT !.result = "PendingRollbackError"]
       ELSE IF existing_policy # None /\ ~overwrite_existing
            THEN [P1 EXCEPT !.result = "ValueError"]
       ELSE IF fail = "save_model"
            THEN [P2 EXCEPT !.result = "StorageFailure"]
       ELSE IF name_is_taken(P3, name)
            THEN [rollback(P3) EXCEPT !.result = "IntegrityError"]
       ELSE register_rating(P4, name, mu1, sigma1, anch)

(***************************************************************************)
(* PolicyPool.add_policy_copy, lines 132-138.  original_policy.model is a  *)
(* plain attribute of the Python object, not a column: the session holds   *)
(* its objects weakly, so an object the roster does not hold may have been *)
(* collected and loaded afresh, without the attribute.  has_model says     *)
(* whether the object queried still carries it.                            *)
(***************************************************************************)
source_unchecked(original_policy) == TRUE

\* assert original_policy is not None
source_exists(original_policy) == original_policy # None

add_policy_copy(P, key, name, tenured, anch, has_model, fail) ==
    LET original_policy == query_policy_by_name(P, key)
        \* held by the roster: the object is the one the roster has
        held == \E k \in 1..Len(P.active_policies) :
                    P.active_policies[k] = original_policy
    IN IF pending_rollback(P)
            \* the query of line 134 raises
            THEN [P EXCEPT !.result = "PendingRollbackError"]
       ELSE IF ~source_exists(original_policy)
            THEN [P EXCEPT !.result = "AssertionError"]
       ELSE IF \/ original_policy = None
               \/ P.objs[original_policy].model = None
               \/ (~held /\ ~has_model)
            \* original_policy.model: neither None nor an object loaded
            \* afresh has the attribute
            THEN [P EXCEPT !.result = "AttributeError"]
       ELSE add_policy(P, P.objs[original_policy].model, name, tenured,
                       P.objs[original_policy].mu,
                       P.objs[original_policy].sigma, anch, TRUE, fail)

(***************************************************************************)
(* PolicyPool.update_active_policies, lines 272-279.  sampled is what      *)
(* np.random.choice drew from all_policies.                                *)
(***************************************************************************)
\* np.random.choice(all_policies, self.num_active_policies - 1, replace=True)
sample_size(n) == n - 1

\* [learner_policy] + np.random.choice(...).tolist()
roster_of(learner_policy, sampled) == <<learner_policy>> \o sampled

\* torch.load(self.model_path) raises when nothing was saved at the path.
has_snapshot(O, F, policy) == O[policy].model_path \in DOMAIN F

\* Policy.load_model, lines 36-38: the object's model becomes the model
\* passed, with the state_dict saved at its model_path loaded into it.
load_model(O, F, policy) == [O EXCEPT ![policy].model = F[O[policy].model_path]]

\* policy.load_model(copy.deepcopy(self.learner)) for every policy of the
\* roster.  The loop ends at the first entry that is None or whose snapshot
\* is missing.
RECURSIVE load_models(_, _, _)
load_models(O, F, roster) ==
    IF roster = <<>> THEN O
    ELSE LET policy == Head(roster)
         IN IF policy = None \/ ~has_snapshot(O, F, policy) THEN O
            ELSE load_models(load_model(O, F, policy), F, Tail(roster))

\* The records the loop loaded a model into.
RECURSIVE loaded_ids(_, _, _)
loaded_ids(O, F, roster) ==
    IF roster = <<>> THEN {}
    ELSE LET policy == Head(roster)
         IN IF policy = None \/ ~has_snapshot(O, F, policy) THEN {}
            ELSE {policy} \cup loaded_ids(O, F, Tail(roster))

\* The records of lines 273-274 are queried: one the old roster held is the
\* object it was, and any other is, object by object, either the object it
\* was (something still held it: with_model) or one the session made
\* afresh, without the model attribute.  A record made afresh has a model
\* only if the loop loaded one.
requeried(O, old_roster, roster, loaded, with_model) ==
    [id \in DOMAIN O |->
        IF /\ \E k \in DOMAIN roster : roster[k] = id
           /\ ~\E k \in DOMAIN old_roster : old_roster[k] = id
           /\ id \notin loaded
           /\ id \notin with_model
        THEN [O[id] EXCEPT !.model = None]
        ELSE O[id]]

update_active_policies(P, learner_name, n, sampled, with_model) ==
    LET learner_policy == query_policy_by_name(P, learner_name)
        all_policies == query_all_policies(P)
        roster == roster_of(learner_policy, sampled)
        loaded == loaded_ids(P.objs, P.files, roster)
    IN IF pending_rollback(P)
            \* the query of line 273 raises
            THEN [P EXCEPT !.result = "PendingRollbackError"]
       ELSE IF all_policies = {} /\ sample_size(n) # 0
            \* np.random.choice raises on an empty population
            THEN [P EXCEPT !.result = "ValueError"]
       ELSE [P EXCEPT !.active_policies = roster,
                      !.objs = requeried(load_models(@, P.files, roster),
                                         P.active_policies, roster, loaded,
                                         with_model),
                      !.result =
                          IF learner_policy = None
                          \* the roster is assigned, then None.load_model
                          \* raises
                          THEN "AttributeError"
                          ELSE IF \A k \in DOMAIN roster :
                                      has_snapshot(P.objs, P.files, roster[k])
                          THEN "ok" ELSE "FileNotFoundError"]

(***************************************************************************)
(* PolicyPool.forwards, lines 185-217, without recurrent state.  The       *)
(* models are the caller's: a model's action, log-probability and value    *)
(* for an observation are distinct functions of its parameters and the     *)
(* observation, none of them the 0 a fresh buffer holds.                   *)
(***************************************************************************)
\* obs[samp], and np.array(agent_infos)[samp]
RECURSIVE take(_, _)
take(agent_infos, samp) ==
    IF samp = <<>> THEN <<>>
    ELSE <<agent_infos[Head(samp) + 1]>> \o take(agent_infos, Tail(samp))

atn_of(model, o) == 10 * model + o
lgprob_of(model, o) == 0 - (10 * model + o)
val_of(model, o) == 100 * model + o

\* policy.model.get_action_and_value(obs[samp]): one result per sample
get_action_and_value(model, obs_samp) ==
    [atn |-> [k \in DOMAIN obs_samp |-> atn_of(model, obs_samp[k])],
     lgprob |-> [k \in DOMAIN obs_samp |-> lgprob_of(model, obs_samp[k])],
     val |-> [k \in DOMAIN obs_samp |-> val_of(model, obs_samp[k])]]

\* torch.zeros(batch_size)
zeros(batch_size) == [i \in 1..batch_size |-> 0]

buffer_always_fresh(is_allocated, buf, batch_size) == zeros(batch_size)

\* if not self.allocated: self.<buffer> = torch.zeros(batch_size, ...)
buffer_of(is_allocated, buf, batch_size) ==
    IF is_allocated THEN buf ELSE zeros(batch_size)

\* buf[samp] = out
index_put(buf, samp, out) ==
    [i \in DOMAIN buf |->
        IF \E k \in DOMAIN samp : samp[k] + 1 = i
        THEN out[CHOOSE k \in DOMAIN samp : samp[k] + 1 = i]
        ELSE buf[i]]

\* The buffers as one record; result as in Pool.
Buffers == [allocated |-> allocated, actions |-> actions,
            logprobs |-> logprobs, values |-> values, result |-> "ok"]

\* for samp, policy in zip(self.sample_idxs, self.active_policies), from slot s on
RECURSIVE forward_slots(_, _, _, _, _, _)
forward_slots(B, O, idxs, roster, obs, s) ==
    IF s > Len(idxs) \/ s > Len(roster) THEN B
    ELSE LET samp == idxs[s]
             policy == roster[s]
             batch_size == Len(obs)
             out == get_action_and_value(O[policy].model, take(obs, samp))
         IN IF policy = None \/ O[policy].model = None
            \* policy.model: neither None nor a record no model was
            \* loaded into has the attribute
            THEN [B EXCEPT !.result = "AttributeError"]
            ELSE forward_slots(
                     [B EXCEPT
                        !.allocated = TRUE,
                        !.actions = index_put(
                            buffer_of(B.allocated, @, batch_size), samp, out.atn),
                        !.logprobs = index_put(
                            buffer_of(B.allocated, @, batch_size), samp, out.lgprob),
                        !.values = index_put(
                            buffer_of(B.allocated, @, batch_size), samp, out.val)],
                     O, idxs, roster, obs, s + 1)

forwards(B, O, idxs, roster, obs) == forward_slots(B, O, idxs, roster, obs, 1)

(***************************************************************************)
(* PolicyPool.update_scores, lines 231-252.  An info is the list of its    *)
(* dict's values; an agent's entry is a function from its keys.            *)
(***************************************************************************)
\* for info in infos: agent_infos += list(info.values())
RECURSIVE flatten(_)
flatten(infos) ==
    IF infos = <<>> THEN <<>> ELSE Head(infos) \o flatten(Tail(infos))

counts_entry_truthy(entry, info_key) ==
    info_key \in DOMAIN entry /\ entry[info_key] # 0

\* if info_key not in i: continue
counts_entry(entry, info_key) == info_key \in DOMAIN entry

\* Lines 245-250 for one slot: the ledger after the slot's entries.
RECURSIVE append_scores(_, _, _, _)
append_scores(S, name, pol_infos, info_key) ==
    IF pol_infos = <<>> THEN S
    ELSE LET i == Head(pol_infos)
             S1 == IF counts_entry(i, info_key)
                   THEN Put(S, name,
                            Append(IF name \in DOMAIN S THEN S[name] ELSE <<>>,
                                   i[info_key]))
                   ELSE S
         IN append_scores(S1, name, Tail(pol_infos), info_key)

RECURSIVE count_scores(_, _)
count_scores(pol_infos, info_key) ==
    IF pol_infos = <<>> THEN 0
    ELSE (IF counts_entry(Head(pol_infos), info_key) THEN 1 ELSE 0)
         + count_scores(Tail(pol_infos), info_key)

\* for samp, policy in zip(self.sample_idxs, self.active_policies), from slot s on
RECURSIVE score_slots(_, _, _, _, _)
score_slots(P, idxs, agent_infos, info_key, s) ==
    IF s > Len(idxs) \/ s > Len(P.active_policies) THEN P
    ELSE LET policy == P.active_policies[s]
             pol_infos == take(agent_infos, idxs[s])
         IN IF policy = None
            THEN [P EXCEPT !.result = "AttributeError"]
            ELSE IF pending_rollback(P) /\ policy \in P.db
            \* policy.name: the record of a row is expired, and the query
            \* that would load it again raises
            THEN [P EXCEPT !.result = "PendingRollbackError"]
            ELSE score_slots(
                     [P EXCEPT !.scores = append_scores(@, P.objs[policy].name,
                                                        pol_infos, info_key),
                               !.num_scores = @ + count_scores(pol_infos, info_key)],
                     idxs, agent_infos, info_key, s + 1)

update_scores(P, idxs, infos, info_key) ==
    score_slots(P, idxs, flatten(infos), info_key, 1)

(***************************************************************************)
(* PolicyPool.update_ranks, lines 254-270.  outcome is what the rating     *)
(* arithmetic makes of the ledger's samples.  fail is the name at whose    *)
(* turn of the write-back loop the database raises (the query of line 263  *)
(* or the commit of line 267, which rolls the row's change back), or       *)
(* "none".                                                                 *)
(***************************************************************************)
\* self.tournament.ratings.items(): a dict's keys in the order they were
\* first set; the learner's, set by __init__, comes first.
ratings_items(R) == SelectSeq(NameOrder, LAMBDA n : n \in DOMAIN R)

\* The names whose turn of the loop was over when it raised at fail's.
RECURSIVE names_before(_, _)
names_before(items, fail) ==
    IF items = <<>> \/ Head(items) = fail THEN {}
    ELSE {Head(items)} \cup names_before(Tail(items), fail)

names_scored_only(R, S) == DOMAIN S

\* for name, rating in self.tournament.ratings.items(): every rated name,
\* whatever the ledger S held.
names_written_back(R, S) == DOMAIN R

\* policy.mu = rating.mu; policy.sigma = rating.sigma; update_policy(policy),
\* for every name of the loop that has a row.
write_back(P, R, names) ==
    [id \in DOMAIN P.objs |->
        IF id \in P.db /\ P.objs[id].name \in names
           /\ id = query_policy_by_name(P, P.objs[id].name)
        THEN [P.objs[id] EXCEPT !.mu = R[P.objs[id].name].mu,
                                !.sigma = R[P.objs[id].name].sigma]
        ELSE P.objs[id]]

ledger_after_flush_kept(S) == S

\* self.scores = defaultdict(list)
ledger_after_flush(S) == [n \in {} |-> <<>>]

\* The loop over names, each row written being committed by update_policy.
write_back_committed(P, R, names) ==
    LET P1 == [P EXCEPT !.objs = write_back(P, R, names)]
    IN IF \E id \in P.db : P.objs[id].name \in names THEN commit(P1) ELSE P1

\* The pool when the loop comes to fail's turn: the names before it are
\* written and committed.
written_before(P, outcome, fail) ==
    LET R == tournament_update(P.ratings, P.anchor, DOMAIN P.scores, outcome)
    IN write_back_committed(
           [P EXCEPT !.ratings = R], R,
           names_written_back(R, P.scores)
               \cap names_before(ratings_items(R), fail))

\* At fail's turn there is something to flush: fail has a row, which line
\* 267 commits, or a record assigned to is still uncommitted.
flushes_at(P, outcome, fail) ==
    \/ query_policy_by_name(P, fail) # None
    \/ DOMAIN written_before(P, outcome, fail).dirty # {}

\* rolled_back: what raised was a flush (that of the commit of line 267, or
\* the one a query makes first of what was assigned), which rolls the
\* session's uncommitted assignments back and leaves the session inactive,
\* and not the query itself.
update_ranks(P, outcome, fail, rolled_back) ==
    LET R == tournament_update(P.ratings, P.anchor, DOMAIN P.scores, outcome)
        names == names_written_back(R, P.scores)
        P1 == [P EXCEPT !.ratings = R]
        \* the loop raises at fail; line 270 is not reached
        P2 == written_before(P, outcome, fail)
    IN IF pending_rollback(P) /\ DOMAIN R # {}
       \* the ratings are updated, then the first query of line 263 raises
       THEN [P1 EXCEPT !.result = "PendingRollbackError"]
       ELSE IF fail \in DOMAIN R
       THEN [(IF rolled_back THEN rollback(P2) ELSE P2)
                EXCEPT !.result = "StorageFailure"]
       ELSE [write_back_committed(P1, R, names)
                EXCEPT !.scores = ledger_after_flush(@)]

(***************************************************************************)
(* Inputs.                                                                 *)
(***************************************************************************)
SeqsUpTo(S, n) == UNION {[1..k -> S] : k \in 1..n}

\* __init__'s evaluation_batch_size, sample_weights and active_policies.
ArgsOf(batches, weights, slots) ==
    [evaluation_batch_size : batches, sample_weights : weights,
     active_policies : slots]

\* An agent's info: with the key, or without it.
InfoEntries ==
    {[k \in {InfoKey} |-> v] : v \in ScoreVals} \cup {[k \in {"other"} |-> 1]}

\* infos of two environments, the first with one agent, holding batch agents
\* in all.
InfosOf(batch) ==
    {<<SubSeq(flat, 1, 1), SubSeq(flat, 2, batch)>> :
        flat \in [1..batch -> InfoEntries]}

FailModes == {"none", "save_model"}

\* What a caller of update_policy assigns to the record first.
UpdateVals == {[mu |-> 700, sigma |-> 70, episodes |-> 1, tenured |-> TRUE]}

\* The record of a call: the method, how it ended, and the arguments the
\* properties below speak of (names: the ledger's keys update_ranks flushed,
\* or the keys update_scores appended to).
NoCall == [op |-> "none", result |-> "ok", name |-> "", mu |-> None,
           sigma |-> None, tenured |-> FALSE, anch |-> FALSE, names |-> {},
           policy |-> None, obs |-> <<>>]

Call(op, result) == [NoCall EXCEPT !.op = op, !.result = result]

\* A call that registers a policy: the arguments the new row is made from
\* are kept when it returns, the name alone when it raises.
CallAdd(op, result, name, mu, sigma, tenured, anch) ==
    IF result = "ok"
    THEN [NoCall EXCEPT !.op = op, !.result = result, !.name = name, !.mu = mu,
                        !.sigma = sigma, !.tenured = tenured, !.anch = anch]
    ELSE [NoCall EXCEPT !.op = op, !.result = result, !.name = name]

InitWith(argset) ==
    /\ phase = "new"
    /\ args \in argset
    /\ num_active_policies = 0
    /\ sample_idxs = <<>>
    /\ learner = 1
    /\ objs = <<>>
    /\ db = {}
    /\ dirty = Empty
    /\ session = "active"
    /\ files = Empty
    /\ ratings = Empty
    /\ anchor = ""
    /\ scores = Empty
    /\ num_scores = 0
    /\ active_policies = <<>>
    /\ allocated = FALSE
    /\ actions = <<>>
    /\ logprobs = <<>>
    /\ values = <<>>
    /\ last = NoCall

Init == InitWith(ArgsOf(BatchChoices, WeightChoices, SlotChoices))

(***************************************************************************)
(* PolicyPool.__init__, lines 83-126.                                      *)
(***************************************************************************)
Construct ==
    /\ phase = "new"
    /\ \/ \* assert len(sample_weights) == active_policies
          /\ ~weights_match(args.sample_weights, args.active_policies)
          /\ phase' = "failed"
          /\ last' = Call("__init__", "AssertionError")
          /\ UNCHANGED <<num_active_policies, sample_idxs, objs, db, dirty, session, files,
                         ratings, anchor, scores, num_scores, active_policies>>
       \/ /\ weights_match(args.sample_weights, args.active_policies)
          /\ \E sampled \in [1..sample_size(args.active_policies) -> {1}] :
                LET P1 == add_policy(Pool, learner, LearnerName, TRUE, DefaultMu,
                                     DefaultSigma, FALSE, TRUE, "none")
                    P2 == update_active_policies(P1, LearnerName,
                                                 args.active_policies, sampled,
                                                 {})
                    chunk_size == sum(args.sample_weights)
                    divides == batch_divides(args.evaluation_batch_size,
                                             chunk_size)
                IN /\ Assign(P2)
                   /\ num_active_policies' = args.active_policies
                   /\ phase' = IF divides THEN "ready" ELSE "failed"
                   /\ sample_idxs' =
                          IF divides
                          THEN build_sample_idxs(args.sample_weights,
                                                 args.evaluation_batch_size)
                          ELSE sample_idxs
                   /\ last' = Call("__init__",
                                   IF divides THEN "ok" ELSE "AssertionError")
    /\ UNCHANGED <<args, learner, buffers>>

Ready == phase = "ready"

AddPolicy ==
    /\ Ready
    /\ Len(objs) < MaxObjs
    /\ \E name \in Names, a \in PolicyArgs,
          overwrite_existing \in BOOLEAN, fail \in FailModes :
          LET mu == a[1]
              sigma == a[2]
              anch == a[3]
              tenured == a[4]
              \* the model registered is the live learner
              P1 == add_policy(Pool, learner, name, tenured, mu, sigma, anch,
                               overwrite_existing, fail)
          IN /\ fail # "none" => P1.result = "StorageFailure"
             /\ Assign(P1)
             /\ last' = CallAdd("add_policy", P1.result, name, mu, sigma, tenured, anch)
    /\ UNCHANGED <<phase, args, num_active_policies, sample_idxs, learner, buffers>>

AddPolicyCopy ==
    /\ Ready
    /\ Len(objs) < MaxObjs
    /\ \E key \in Names, name \in Names, a \in CopyArgs,
          has_model \in BOOLEAN, fail \in FailModes :
          LET anch == a[1]
              tenured == a[2]
              P1 == add_policy_copy(Pool, key, name, tenured, anch, has_model, fail)
          IN /\ fail # "none" => P1.result = "StorageFailure"
             /\ Assign(P1)
             /\ last' = CallAdd("add_policy_copy", P1.result, name, None, None,
                                tenured, anch)
    /\ UNCHANGED <<phase, args, num_active_policies, sample_idxs, learner, buffers>>

UpdateActivePolicies ==
    /\ Ready
    /\ \E sampled \in IF db = {} THEN {<<>>}
                      ELSE [1..sample_size(num_active_policies) -> db],
          with_model \in SUBSET db :
          LET P1 == update_active_policies(Pool, LearnerName,
                                           num_active_policies, sampled,
                                           with_model)
          IN /\ Assign(P1)
             /\ last' = Call("update_active_policies", P1.result)
    /\ UNCHANGED <<phase, args, num_active_policies, sample_idxs, learner, buffers>>

UpdateScores ==
    /\ Ready
    /\ \E infos \in InfosOf(args.evaluation_batch_size) :
          LET P1 == update_scores(Pool, sample_idxs, infos, InfoKey)
          IN /\ P1.num_scores <= MaxScores
             /\ Assign(P1)
             /\ last' = [Call("update_scores", P1.result)
                            EXCEPT !.names = {n \in DOMAIN P1.scores :
                                                 n \notin DOMAIN scores
                                                 \/ P1.scores[n] # scores[n]}]
    /\ UNCHANGED <<phase, args, num_active_policies, sample_idxs, learner, buffers>>

UpdateRanks ==
    /\ Ready
    /\ \E outcome \in [DOMAIN scores -> RatingOutcomes] :
          LET P1 == update_ranks(Pool, outcome, "none", FALSE)
          IN /\ Assign(P1)
             /\ last' = [Call("update_ranks", P1.result)
                            EXCEPT !.names = DOMAIN scores]
    /\ UNCHANGED <<phase, args, num_active_policies, sample_idxs, learner, buffers>>

Next ==
    \/ Construct
    \/ AddPolicy
    \/ AddPolicyCopy
    \/ UpdateActivePolicies
    \/ UpdateScores
    \/ UpdateRanks

Spec == Init /\ [][Next]_vars

(***************************************************************************)
(* The pool with its forward pass and a caller that trains the live        *)
(* learner between calls.                                                  *)
(***************************************************************************)
\* The observations of a batch.
ObsOf(batch) == {[i \in 1..batch |-> base + i] : base \in ObsBases}

\* The caller's optimizer step on the model it passed as learner, which the
\* pool holds by reference (self.learner = learner).
Train ==
    /\ Ready
    /\ \E params \in ParamVals \ {learner} : learner' = params
    /\ last' = Call("train", "ok")
    /\ UNCHANGED <<phase, args, num_active_policies, sample_idxs, objs, db, dirty,
                   session, files, ratings, anchor, scores, num_scores, active_policies,
                   buffers>>

Forwards ==
    /\ Ready
    /\ \E obs \in ObsOf(args.evaluation_batch_size) :
          LET B1 == forwards(Buffers, objs, sample_idxs, active_policies, obs)
          IN /\ allocated' = B1.allocated
             /\ actions' = B1.actions
             /\ logprobs' = B1.logprobs
             /\ values' = B1.values
             /\ last' = [Call("forwards", B1.result) EXCEPT !.obs = obs]
    /\ UNCHANGED <<phase, args, num_active_policies, sample_idxs, learner, objs,
                   db, dirty, session, files, ratings, anchor, scores, num_scores,
                   active_policies>>

NextForward ==
    \/ Next
    \/ Train
    \/ Forwards

SpecForward == Init /\ [][NextForward]_vars

(***************************************************************************)
(* The pool over a database that may raise in update_ranks, and with a     *)
(* caller that uses pool.database and the records it holds (those of the   *)
(* roster and of the table) itself: it assigns to a record, saves a model  *)
(* to one or loads one's snapshot, and calls update_policy, delete_policy  *)
(* and add_policy of the PolicyDatabase.                                   *)
(***************************************************************************)
UpdateRanksFailing ==
    /\ Ready
    /\ \E outcome \in [DOMAIN scores -> RatingOutcomes],
          fail \in DOMAIN ratings, rolled_back \in BOOLEAN :
          LET P1 == update_ranks(Pool, outcome, fail, rolled_back)
          IN /\ P1.result = "StorageFailure"
             /\ rolled_back => flushes_at(Pool, outcome, fail)
             /\ Assign(P1)
             /\ last' = [Call("update_ranks", P1.result)
                            EXCEPT !.names = DOMAIN scores]
    /\ UNCHANGED <<phase, args, num_active_policies, sample_idxs, learner, buffers>>

\* policy.mu = ...; policy.sigma = ...; policy.episodes = ...;
\* policy.additional_data = ...
AssignRecord ==
    /\ Ready
    /\ \E policy \in Reachable(Pool) \ {None}, v \in UpdateVals :
          /\ Assign(assign_record(Pool, policy, v))
          /\ last' = Call("assign", "ok")
    /\ UNCHANGED <<phase, args, num_active_policies, sample_idxs, learner, buffers>>

\* pool.database.update_policy(policy)
UpdatePolicy ==
    /\ Ready
    /\ \E policy \in Reachable(Pool) \ {None} :
          LET P1 == database_update_policy(Pool, policy)
          IN /\ Assign(P1)
             /\ last' = [Call("update_policy", P1.result)
                            EXCEPT !.policy = policy]
    /\ UNCHANGED <<phase, args, num_active_policies, sample_idxs, learner, buffers>>

\* pool.database.delete_policy(policy), for a record the table holds
DeletePolicy ==
    /\ Ready
    /\ \E policy \in db :
          LET P1 == IF pending_rollback(Pool)
                    \* session.delete marks the record, the commit raises
                    THEN [Pool EXCEPT !.result = "PendingRollbackError"]
                    ELSE commit([Pool EXCEPT !.db = delete_policy(@, policy)])
          IN /\ Assign(P1)
             /\ last' = Call("delete_policy", P1.result)
    /\ UNCHANGED <<phase, args, num_active_policies, sample_idxs, learner, buffers>>

\* pool.database.add_policy(Policy(name=name, mu=500, sigma=50, ...)): a
\* record with no model, no snapshot saved and no rating registered.
DatabaseAddPolicy ==
    /\ Ready
    /\ Len(objs) < MaxObjs
    /\ \E name \in Names :
          LET policy == Len(objs) + 1
              P1 == [Pool EXCEPT !.objs = Append(@, new_policy(None, name,
                                                              FALSE, 500, 50))]
              P2 == IF pending_rollback(Pool)
                    \* session.add takes the record, the commit raises
                    THEN [P1 EXCEPT !.result = "PendingRollbackError"]
                    ELSE IF name_is_taken(Pool, name)
                    THEN [rollback(P1) EXCEPT !.result = "IntegrityError"]
                    ELSE commit([P1 EXCEPT !.db = database_add_policy(@, policy)])
          IN /\ Assign(P2)
             /\ last' = [Call("database.add_policy", P2.result)
                            EXCEPT !.name = name]
    /\ UNCHANGED <<phase, args, num_active_policies, sample_idxs, learner, buffers>>

\* self.model_path of a record: a column, which an expired record of a row
\* loads by a query.
reads_column(P, policy) ==
    IF pending_rollback(P) /\ policy \in P.db
    THEN "PendingRollbackError" ELSE "ok"

\* policy.save_model(copy.deepcopy(pool.learner)), lines 40-43: the snapshot
\* is written, and the record keeps the model object passed, which is the
\* caller's copy and nobody else's.  self.model_class = ... is an assignment
\* to a column: the record of a row is left with an uncommitted change.
SaveModel ==
    /\ Ready
    /\ \E policy \in Reachable(Pool) \ {None} :
          LET P1 == IF reads_column(Pool, policy) # "ok"
                    THEN [Pool EXCEPT !.result = reads_column(Pool, policy)]
                    ELSE [Pool EXCEPT
                             !.files = Put(@, objs[policy].model_path, learner),
                             !.objs[policy].model = learner,
                             !.dirty = IF policy \in db /\ policy \notin DOMAIN @
                                       THEN Put(@, policy, Columns(objs[policy]))
                                       ELSE @]
          IN /\ Assign(P1)
             /\ last' = Call("save_model", P1.result)
    /\ UNCHANGED <<phase, args, num_active_policies, sample_idxs, learner, buffers>>

\* policy.load_model(copy.deepcopy(pool.learner)), lines 36-38.
LoadModel ==
    /\ Ready
    /\ \E policy \in Reachable(Pool) \ {None} :
          LET P1 == IF reads_column(Pool, policy) # "ok"
                    THEN [Pool EXCEPT !.result = reads_column(Pool, policy)]
                    ELSE IF ~has_snapshot(objs, files, policy)
                    THEN [Pool EXCEPT !.result = "FileNotFoundError"]
                    ELSE [Pool EXCEPT !.objs = load_model(@, files, policy)]
          IN /\ Assign(P1)
             /\ last' = Call("load_model", P1.result)
    /\ UNCHANGED <<phase, args, num_active_policies, sample_idxs, learner, buffers>>

NextFaults ==
    \/ Next
    \/ UpdateRanksFailing
    \/ AssignRecord
    \/ UpdatePolicy
    \/ DeletePolicy
    \/ DatabaseAddPolicy
    \/ SaveModel
    \/ LoadModel

\* The pools of one slot, which holds the learner, and the constructions
\* that fail.
FaultArgs == ArgsOf(BatchChoices, {<<3>>}, SlotChoices)

InitFaults == InitWith(FaultArgs)

SpecFaults == InitFaults /\ [][NextFaults]_vars

(***************************************************************************)
(* The partition table on its own, over more weights and batch sizes.      *)
(***************************************************************************)
PartitionArgs ==
    {a \in ArgsOf(1..PMaxBatch, SeqsUpTo(1..PMaxWeight, PMaxSlots), 1..PMaxSlots) :
        Len(a.sample_weights) = a.active_policies}

InitPartition == InitWith(PartitionArgs)

\* Lines 113-122.
Partition ==
    /\ phase = "new"
    /\ LET chunk_size == sum(args.sample_weights)
           divides == batch_divides(args.evaluation_batch_size, chunk_size)
       IN /\ phase' = IF divides THEN "partitioned" ELSE "failed"
          /\ sample_idxs' =
                 IF divides
                 THEN build_sample_idxs(args.sample_weights,
                                        args.evaluation_batch_size)
                 ELSE sample_idxs
    /\ UNCHANGED <<args, num_active_policies, learner, objs, db, dirty, session, files, ratings,
                   anchor, scores, num_scores, active_policies, buffers, last>>

NextPartition == Partition

SpecPartition == InitPartition /\ [][NextPartition]_vars

(***************************************************************************)
(* Properties.                                                             *)
(***************************************************************************)
Partitioned == phase \in {"partitioned", "ready"}

\* The batch indices slot s (from 1) holds.
IndicesOf(s) == {sample_idxs[s][k] : k \in 1..Len(sample_idxs[s])}

\* C1: for valid sample_weights and evaluation_batch_size the partition table
\* has one index list per slot, every index of [0, evaluation_batch_size) is
\* in exactly one place of exactly one list, no list holds anything else, and
\* slot i holds evaluation_batch_size * sample_weights[i] / sum(sample_weights)
\* indices.
C1_PartitionExact ==
    Partitioned =>
        LET w == args.sample_weights
            b == args.evaluation_batch_size
        IN /\ Len(sample_idxs) = Len(w)
           /\ \A idx \in 0..(b - 1) :
                 Cardinality({p \in {<<s, k>> : s \in 1..Len(w), k \in 1..b} :
                                 /\ p[2] <= Len(sample_idxs[p[1]])
                                 /\ sample_idxs[p[1]][p[2]] = idx}) = 1
           /\ \A s \in 1..Len(w) :
                 /\ IndicesOf(s) \subseteq 0..(b - 1)
                 /\ Len(sample_idxs[s]) * sum(w) = b * w[s]

C1_Witness ==
    /\ phase = "partitioned"
    /\ Len(args.sample_weights) >= 2
    /\ args.sample_weights[1] # args.sample_weights[2]
    /\ args.evaluation_batch_size = 2 * sum(args.sample_weights)
    /\ \A s \in 1..Len(sample_idxs) : sample_idxs[s] # <<>>

\* The slot (from 0) whose run of the cycle holds position r: the weights of
\* the slots before it sum to at most r, and with its own to more than r.
SlotAt(w, r) ==
    CHOOSE i \in 0..(Len(w) - 1) :
        /\ sum(SubSeq(w, 1, i)) <= r
        /\ r < sum(SubSeq(w, 1, i + 1))

\* C2: the partition is interleaved in cycles of chunk = sum(sample_weights):
\* index idx is in the list of the slot that holds position idx mod chunk of
\* the pattern (slot i repeated sample_weights[i] times, in slot order), every
\* list is ascending, and weights [3,1] with batch size 8 give slot 0 the
\* indices 0,1,2,4,5,6 and slot 1 the indices 3,7.
C2_Interleaved ==
    Partitioned =>
        LET w == args.sample_weights
            b == args.evaluation_batch_size
        IN /\ \A idx \in 0..(b - 1) :
                 idx \in IndicesOf(SlotAt(w, idx % sum(w)) + 1)
           /\ \A s \in 1..Len(w) : \A j, k \in 1..Len(sample_idxs[s]) :
                 j < k => sample_idxs[s][j] < sample_idxs[s][k]
           /\ (w = <<3, 1>> /\ b = 8) =>
                 sample_idxs = <<(<<0, 1, 2, 4, 5, 6>>), (<<3, 7>>)>>

C2_Witness ==
    /\ phase = "partitioned"
    /\ args.sample_weights = <<3, 1>>
    /\ args.evaluation_batch_size = 8
    /\ IndicesOf(2) = {3, 7}

\* The row the table holds under a name, or None.
Row(name) == query_policy_by_name(Pool, name)

\* C3: add_policy with the name of an existing row and overwrite_existing
\* false raises ValueError (the naming conflict) and changes nothing: the
\* table, the row's object with its mu, sigma, episodes and tenured flag, the
\* saved snapshots and the tournament's ratings are as before.
C3_ConflictLeavesStore ==
    Ready =>
        \A name \in Names, a \in PolicyArgs, fail \in FailModes :
            Row(name) # None =>
                LET P1 == add_policy(Pool, learner, name, a[4], a[1], a[2],
                                     a[3], FALSE, fail)
                IN /\ P1.result = "ValueError"
                   /\ P1.db = db
                   /\ query_policy_by_name(P1, name) = Row(name)
                   /\ P1.objs = objs
                   /\ P1.files = files
                   /\ P1.ratings = ratings
                   /\ P1.anchor = anchor

\* A refused add_policy on the name of a row of the table.
C3_Witness ==
    /\ last.op = "add_policy"
    /\ last.result = "ValueError"
    /\ Row(last.name) # None
    /\ last.name \in DOMAIN ratings

\* C4: after add_policy(name = X, tenured, mu, sigma) returns, the row found
\* under X has the mu and sigma supplied (the pool's defaults where None was
\* passed), episodes 0 and the tenured flag supplied.
C4_AddThenQuery ==
    (last.op = "add_policy" /\ last.result = "ok") =>
        /\ Row(last.name) # None
        /\ objs[Row(last.name)].name = last.name
        /\ objs[Row(last.name)].mu =
               (IF last.mu = None THEN DefaultMu ELSE last.mu)
        /\ objs[Row(last.name)].sigma =
               (IF last.sigma = None THEN DefaultSigma ELSE last.sigma)
        /\ objs[Row(last.name)].episodes = 0
        /\ objs[Row(last.name)].tenured = last.tenured

\* The learner's row replaced by a call that supplied mu, sigma and tenured.
C4_Witness ==
    /\ last.op = "add_policy"
    /\ last.result = "ok"
    /\ last.name = LearnerName
    /\ last.mu = 500
    /\ last.tenured
    /\ Row(LearnerName) > 1

\* C5: no two rows of the table have the same name.
C5_NameUnique ==
    \A p, q \in db : objs[p].name = objs[q].name => p = q

\* The learner's row of __init__ replaced by a call that names the learner.
C5_Witness ==
    /\ last.op \in {"add_policy", "add_policy_copy"}
    /\ last.result = "ok"
    /\ last.name = LearnerName
    /\ 1 \notin db
    /\ Row(LearnerName) = 2

\* C6: add_policy with overwrite on an existing name replaces the row
\* atomically: however the call ends, a row of that name is in the table
\* afterwards.
C6_AtomicReplace ==
    [][\A n \in Names :
          (last'.op \in {"add_policy", "add_policy_copy"} /\ last'.name = n
           /\ Row(n) # None)
          => query_policy_by_name(Pool', n) # None]_vars

\* C7: after every call of update_active_policies (the one __init__ makes and
\* every later one, after any sequence of other calls) the roster has
\* num_active_policies slots and slot 0 holds a policy of the learner's name.
C7_RosterShape ==
    (\/ last.op = "update_active_policies"
     \/ last.op = "__init__" /\ Len(args.sample_weights) = args.active_policies) =>
        /\ Len(active_policies) = num_active_policies
        /\ active_policies[1] # None
        /\ objs[active_policies[1]].name = LearnerName

\* The ledger's samples under a name: none when the name is no key of it.
Ledger(S, n) == IF n \in DOMAIN S THEN S[n] ELSE <<>>

\* The values under the key among the entries at slot s's partition indices,
\* in index order.
KeyedValuesAt(flat, s) ==
    LET entries == [k \in 1..Len(sample_idxs[s]) |-> flat[sample_idxs[s][k] + 1]]
        keyed == SelectSeq(entries, LAMBDA e : InfoKey \in DOMAIN e)
    IN [k \in 1..Len(keyed) |-> keyed[k][InfoKey]]

\* What the slots from s on that hold a policy named n contribute, in slot
\* order.
RECURSIVE SamplesFor(_, _, _)
SamplesFor(n, flat, s) ==
    IF s > Len(active_policies) THEN <<>>
    ELSE (IF objs[active_policies[s]].name = n
          THEN KeyedValuesAt(flat, s) ELSE <<>>)
         \o SamplesFor(n, flat, s + 1)

\* C8: update_scores appends to the ledger, under each slot's policy name,
\* exactly the values under the key of the entries at that slot's partition
\* indices that have the key; entries without it add nothing and raise
\* nothing, slots of one name share a ledger entry, and the entries of names
\* not in the roster are unchanged.  A slot of two entries of which one lacks
\* the key adds one sample.
C8_ScoresAppended ==
    Ready =>
        \A infos \in InfosOf(args.evaluation_batch_size) :
            LET P1 == update_scores(Pool, sample_idxs, infos, InfoKey)
                flat == infos[1] \o infos[2]
            IN active_policies[1] # None =>
                  /\ P1.result = "ok"
                  /\ \A n \in Names :
                        Ledger(P1.scores, n)
                            = Ledger(scores, n) \o SamplesFor(n, flat, 1)
                  /\ DOMAIN P1.scores \subseteq Names

\* Slot 0 holds two of three agents and a policy slot 1 does not; the call
\* appended one sample, under slot 0's name: one of its two entries had no key.
C8_Witness ==
    /\ last.op = "update_scores"
    /\ last.result = "ok"
    /\ args.sample_weights = <<2, 1>>
    /\ objs[active_policies[1]].name # objs[active_policies[2]].name
    /\ last.names = {objs[active_policies[1]].name}
    /\ num_scores = 1
    /\ Len(Ledger(scores, objs[active_policies[1]].name)) = 1

\* C9: after update_ranks returns the ledger has no samples under any name,
\* the names that have no row in the table included; such names are passed
\* over without an error: the call raises only when the database does.
C9_LedgerCleared ==
    last.op = "update_ranks" =>
        /\ last.result \in {"ok", "StorageFailure", "PendingRollbackError"}
        /\ last.result = "ok" => \A n \in Names : Ledger(scores, n) = <<>>

\* update_ranks flushed a ledger that held a name the table has no row for.
C9_Witness ==
    /\ last.op = "update_ranks"
    /\ last.result = "ok"
    /\ \E n \in last.names : Row(n) = None
    /\ DOMAIN scores = {}

\* C10: update_ranks leaves the mu and sigma of every row whose name has no
\* samples in the ledger as they were.
C10_UnscoredUntouched ==
    [][last'.op = "update_ranks" =>
          \A n \in Names :
              (Ledger(scores, n) = <<>> /\ Row(n) # None) =>
                  /\ objs'[Row(n)].mu = objs[Row(n)].mu
                  /\ objs'[Row(n)].sigma = objs[Row(n)].sigma]_vars

\* C11: after update_ranks returns, every name that has both a row in the
\* table and a rating in the tournament has the rating's mu and sigma in its
\* row.
C11_StoreMatchesRatings ==
    (last.op = "update_ranks" /\ last.result = "ok") =>
        \A n \in DOMAIN ratings :
            Row(n) # None =>
                /\ objs[Row(n)].mu = ratings[n].mu
                /\ objs[Row(n)].sigma = ratings[n].sigma

\* update_ranks re-rated a scored name that has a row, and wrote the new
\* rating to the row.
C11_Witness ==
    /\ last.op = "update_ranks"
    /\ last.result = "ok"
    /\ \E n \in last.names :
          /\ Row(n) # None
          /\ ratings[n] \in RatingOutcomes
          /\ objs[Row(n)].mu = ratings[n].mu

\* C12: constructing the pool fails with an assertion error, and does not
\* complete, whenever len(sample_weights) differs from active_policies or
\* evaluation_batch_size is not a multiple of sum(sample_weights).
C12_ConfigRejected ==
    (/\ phase # "new"
     /\ \/ Len(args.sample_weights) # args.active_policies
        \/ args.evaluation_batch_size % sum(args.sample_weights) # 0) =>
        /\ phase = "failed"
        /\ last.op = "__init__"
        /\ last.result = "AssertionError"

\* A construction with as many weights as slots and a batch size their sum
\* does not divide has failed.
C12_Witness ==
    /\ phase = "failed"
    /\ last.result = "AssertionError"
    /\ Len(args.sample_weights) = args.active_policies
    /\ args.evaluation_batch_size % sum(args.sample_weights) # 0

\* C16: a construction that fails with a configuration error, for either
\* cause, fails before any side effect: no learner row, snapshot or rating
\* has been written and no roster has been drawn.
C16_FailsBeforeSideEffects ==
    phase = "failed" =>
        /\ db = {}
        /\ files = Empty
        /\ ratings = Empty
        /\ active_policies = <<>>

\* The mu and sigma of a record.
Rating(r) == [mu |-> r.mu, sigma |-> r.sigma]

\* C13: when the database raises during update_ranks there is no partial rank
\* commit: every name with a row has either its new rating both in the
\* tournament and in its row, or the rating and the row it had before the
\* call; the roster is as before; and the ledger's samples are neither lost
\* nor already applied, so that a retry applies them once.
C13_NoPartialRankCommit ==
    [][(last'.op = "update_ranks" /\ last'.result = "StorageFailure") =>
          /\ \A n \in DOMAIN ratings :
                Row(n) # None =>
                    \/ /\ ratings'[n] = ratings[n]
                       /\ Rating(objs'[Row(n)]) = Rating(objs[Row(n)])
                    \/ /\ ratings'[n] # ratings[n]
                       /\ Rating(objs'[Row(n)]) = ratings'[n]
          /\ active_policies' = active_policies
          /\ \A n \in DOMAIN scores :
                \/ Ledger(scores', n) = scores[n] /\ ratings'[n] = ratings[n]
                \/ Ledger(scores', n) = <<>> /\ ratings'[n] # ratings[n]]_vars

\* C14: update_policy, over a session no refused flush has left inactive,
\* commits the mu, sigma, episodes and tenured flag assigned to the record
\* when the table holds the record, and raises, leaving the table as it was,
\* when the record's row has been deleted or replaced.
C14_UpdateChecksRecord ==
    (last.op = "update_policy" /\ session = "active") =>
        IF last.policy \in db
        THEN /\ last.result = "ok"
             /\ last.policy \notin DOMAIN dirty
        ELSE last.result # "ok"

\* C15: add_policy_copy whose source name has no row in the table raises the
\* not-found assertion and changes nothing: table, records, snapshots,
\* ratings, roster and ledger are as before.
C15_CopyOfMissingSource ==
    Ready =>
        \A key \in Names, name \in Names, a \in CopyArgs,
           has_model \in BOOLEAN, fail \in FailModes :
            Row(key) = None =>
                LET P1 == add_policy_copy(Pool, key, name, a[2], a[1],
                                          has_model, fail)
                IN /\ P1.result = "AssertionError"
                   /\ [P1 EXCEPT !.result = "ok"] = Pool

\* add_policy_copy has been refused for a source name the table lacks.
C15_Witness ==
    /\ last.op = "add_policy_copy"
    /\ last.result = "AssertionError"
    /\ \E key \in Names : Row(key) = None
    /\ db # {}

\* C19: after add_policy(name, mu, sigma, anchor) returns: with anchor false
\* the name is rated in the tournament at the mu and sigma supplied (the
\* pool's defaults where None was passed), which are those of its new row;
\* with anchor true the name is the tournament's anchor and its rating is the
\* one set_anchor gave it, not the mu and sigma supplied.
C19_RatingRegistered ==
    (last.op = "add_policy" /\ last.result = "ok") =>
        /\ last.name \in DOMAIN ratings
        /\ IF last.anch
           THEN /\ anchor = last.name
                /\ ratings[last.name] = [mu |-> AnchorMu, sigma |-> DefaultSigma]
           ELSE /\ ratings[last.name] =
                       [mu |-> IF last.mu = None THEN DefaultMu ELSE last.mu,
                        sigma |-> IF last.sigma = None THEN DefaultSigma
                                  ELSE last.sigma]
                /\ ratings[last.name] = Rating(objs[Row(last.name)])

\* A competitor has been added with its own mu and sigma.
C19_Witness ==
    /\ last.op = "add_policy"
    /\ last.result = "ok"
    /\ ~last.anch
    /\ last.mu = 500
    /\ ratings[last.name].mu = 500
    /\ anchor # last.name

\* Every slot of roster is bound to the record the table rows hold under the
\* slot's name.
RosterBound(O, rows, roster) ==
    \A k \in 1..Len(roster) :
        /\ roster[k] # None
        /\ roster[k] \in rows
        /\ \A id \in rows : O[id].name = O[roster[k]].name => id = roster[k]

\* C20: between operations every roster slot is bound to the record the table
\* holds under the slot's name: an add_policy or add_policy_copy that returns,
\* overwriting calls included, takes a pool whose roster is so bound to one
\* whose roster is so bound, and does not leave forwards and update_scores
\* with a record deleted from the table.
C20_RosterBoundToStore ==
    [][(/\ last'.op \in {"add_policy", "add_policy_copy"}
        /\ last'.result = "ok"
        /\ RosterBound(objs, db, active_policies))
       => RosterBound(objs', db', active_policies')]_vars

\* C17: for every call of forwards on a batch of evaluation_batch_size
\* observations that returns, the first (which allocates the buffers) and the
\* later ones (which reuse them), the action, log-probability and value at
\* every batch index are those the model of the slot the index is
\* partitioned to gives for that call's observation at the index: no entry is
\* a buffer's initial zero or a previous call's.
C17_ForwardComplete ==
    (last.op = "forwards" /\ last.result = "ok") =>
        LET w == args.sample_weights
            b == args.evaluation_batch_size
        IN /\ Len(actions) = b /\ Len(logprobs) = b /\ Len(values) = b
           /\ \A idx \in 0..(b - 1) :
                 LET s == SlotAt(w, idx % sum(w)) + 1
                     model == objs[active_policies[s]].model
                     o == last.obs[idx + 1]
                 IN /\ actions[idx + 1] = atn_of(model, o)
                    /\ logprobs[idx + 1] = lgprob_of(model, o)
                    /\ values[idx + 1] = val_of(model, o)

\* A later call of forwards, over two slots whose models differ, on other
\* observations than the call that allocated the buffers.
C17_Witness ==
    /\ last.op = "forwards"
    /\ last.result = "ok"
    /\ Len(active_policies) = 2
    /\ objs[active_policies[1]].model # objs[active_policies[2]].model
    /\ last.obs[1] = 4
    /\ actions[1] = atn_of(objs[active_policies[1]].model, 4)

\* C18: the snapshot saved for a policy named X changes only through an
\* add_policy of the name X (add_policy_copy to the name X included): no
\* training of the caller's live model, no rotation, which loads snapshots
\* into fresh models, no forwards, and no add_policy of another name changes
\* the parameters saved at X's path.
C18_SnapshotByValue ==
    [][\A X \in Names :
          (/\ model_path(X) \in DOMAIN files
           /\ \/ model_path(X) \notin DOMAIN files'
              \/ files'[model_path(X)] # files[model_path(X)])
          => (last'.op \in {"add_policy", "add_policy_copy"}
              /\ last'.name = X)]_vars

\* The live learner has been trained since its snapshot was saved, and a
\* rotation has loaded that snapshot into the model of slot 0.
C18_Witness ==
    /\ last.op = "update_active_policies"
    /\ last.result = "ok"
    /\ model_path(LearnerName) \in DOMAIN files
    /\ files[model_path(LearnerName)] # learner
    /\ objs[active_policies[1]].model = files[model_path(LearnerName)]
    /\ \E p \in db : objs[p].model_path # model_path(LearnerName)

=============================================================================
